---- MODULE Spec2Model ----
(***************************************************************************)
(* The bytecode virtual machine of cpplox (VM::interpret, VM::run and the  *)
(* visitors they apply), as a state machine.  One action per Op_code case  *)
(* of the dispatch loop in VM::run; each action is one whole iteration of  *)
(* the loop: the trace written at the loop head, the fetch of the opcode   *)
(* and the body of its case.                                               *)
(*                                                                         *)
(* The compiler (compiler.hpp), the chunk (chunk.hpp), the disassembler    *)
(* (debug.hpp) and the declaration of VM (vm.hpp) are not part of the      *)
(* sources at hand; what the machine needs of them is modelled from the    *)
(* specification and marked so where it is defined.                        *)
(***************************************************************************)
EXTENDS Integers, Sequences, FiniteSets, TLC

(***************************************************************************)
(* Bounds of the model.                                                    *)
(***************************************************************************)
\* number literals of the sources tried are 0 .. MaxNum
MaxNum == 2
\* interpret is called at most MaxCalls times on one VM
MaxCalls == 2
\* number of statements in the body of the long if statement, chosen so
\* that its jump distances need the high byte of the 16-bit operand
LongBody == 130

(***************************************************************************)
(* Value (value.hpp): boost::variant<nullptr_t, bool, double, string>.     *)
(* Every value is a record of the same shape; `type` says which member is  *)
(* live.  A double is the exact rational num / |den|, with                 *)
(*   den > 0            a finite non-zero number (num # 0, lowest terms)   *)
(*   num = 0, den = 1   +0          num = 0, den = -1   -0                 *)
(*   num = 1, den = 0   +infinity   num = -1, den = 0   -infinity          *)
(*   num = 0, den = 0   NaN                                                *)
(* Rounding of the binary format is not modelled: the results of one       *)
(* operation on the small integers used here are the same to the six       *)
(* digits that are ever written.                                           *)
(***************************************************************************)
Nil == [type |-> "nil", b |-> FALSE, num |-> 0, den |-> 1, str |-> ""]

Bool(v) == [type |-> "bool", b |-> v, num |-> 0, den |-> 1, str |-> ""]

Double(n, d) == [type |-> "number", b |-> FALSE, num |-> n, den |-> d, str |-> ""]

String(s) == [type |-> "string", b |-> FALSE, num |-> 0, den |-> 1, str |-> s]

Abs(n) == IF n < 0 THEN -n ELSE n

RECURSIVE GCD(_, _)
GCD(a, b) == IF b = 0 THEN a ELSE GCD(b, a % b)

NaN == Double(0, 0)

Infinity(sign) == Double(sign, 0)

Zero(sign) == Double(0, sign)

IsNaN(x) == x.num = 0 /\ x.den = 0

IsInf(x) == x.num # 0 /\ x.den = 0

IsZero(x) == x.num = 0 /\ x.den # 0

\* the sign bit of a double that is not NaN: -1 or 1
SignOf(x) == IF x.num < 0 \/ x.den < 0 THEN -1 ELSE 1

\* the double n / d for integers n and d > 0, a zero result carrying `sign`
Ratio(n, d, sign) ==
    IF n = 0 THEN Zero(sign)
    ELSE LET g == GCD(Abs(n), d) IN Double(n \div g, d \div g)

\* double operator- (unary)
DoubleNegate(x) ==
    IF IsNaN(x) THEN NaN
    ELSE IF IsZero(x) THEN Zero(-x.den)
    ELSE Double(-x.num, x.den)

\* double operator+
DoubleAdd(x, y) ==
    IF IsNaN(x) \/ IsNaN(y) THEN NaN
    ELSE IF IsInf(x) /\ IsInf(y) THEN (IF x.num = y.num THEN x ELSE NaN)
    ELSE IF IsInf(x) THEN x
    ELSE IF IsInf(y) THEN y
    ELSE IF IsZero(x) /\ IsZero(y)
         THEN Zero(IF x.den = -1 /\ y.den = -1 THEN -1 ELSE 1)
    ELSE Ratio(x.num * Abs(y.den) + y.num * Abs(x.den), Abs(x.den) * Abs(y.den), 1)

\* double operator- (binary)
DoubleSubtract(x, y) == DoubleAdd(x, DoubleNegate(y))

\* double operator*
DoubleMultiply(x, y) ==
    IF IsNaN(x) \/ IsNaN(y) THEN NaN
    ELSE IF (IsInf(x) /\ IsZero(y)) \/ (IsZero(x) /\ IsInf(y)) THEN NaN
    ELSE IF IsInf(x) \/ IsInf(y) THEN Infinity(SignOf(x) * SignOf(y))
    ELSE Ratio(x.num * y.num, Abs(x.den) * Abs(y.den), SignOf(x) * SignOf(y))

\* double operator/ : IEEE division, no error on a zero divisor
DoubleDivide(x, y) ==
    IF IsNaN(x) \/ IsNaN(y) THEN NaN
    ELSE IF (IsInf(x) /\ IsInf(y)) \/ (IsZero(x) /\ IsZero(y)) THEN NaN
    ELSE IF IsInf(x) \/ IsZero(y) THEN Infinity(SignOf(x) * SignOf(y))
    ELSE IF IsInf(y) THEN Zero(SignOf(x) * SignOf(y))
    ELSE Ratio(SignOf(y) * x.num * y.den, Abs(x.den) * Abs(y.num), SignOf(x) * SignOf(y))

\* double operator< : false when either side is NaN
DoubleLess(x, y) ==
    IF IsNaN(x) \/ IsNaN(y) THEN FALSE
    ELSE IF IsInf(x) \/ IsInf(y)
         THEN (IF IsInf(x) /\ IsInf(y) THEN x.num < y.num
               ELSE IF IsInf(x) THEN x.num < 0
               ELSE y.num > 0)
    ELSE x.num * Abs(y.den) < y.num * Abs(x.den)

\* double operator>
DoubleGreater(x, y) == DoubleLess(y, x)

\* double operator== : NaN equals nothing, the two zeros are equal
DoubleEqual(x, y) ==
    IF IsNaN(x) \/ IsNaN(y) THEN FALSE
    ELSE x.num = y.num /\ Abs(x.den) = Abs(y.den)

(***************************************************************************)
(* operator<<(ostream&, double) with the stream's default format: what     *)
(* printf's %g writes with precision 6.                                    *)
(***************************************************************************)
RECURSIVE Pow10(_)
Pow10(k) == IF k = 0 THEN 1 ELSE 10 * Pow10(k - 1)

\* the decimal exponent e of p / q > 0: 10^e <= p / q < 10^(e + 1)
RECURSIVE Exponent10(_, _)
Exponent10(p, q) ==
    IF p >= 10 * q THEN 1 + Exponent10(p, 10 * q)
    ELSE IF p < q THEN Exponent10(10 * p, q) - 1
    ELSE 0

\* n / d rounded to the nearest integer, ties to even
RoundHalfEven(n, d) ==
    LET f == n \div d
        r == n % d
    IN  IF 2 * r > d \/ (2 * r = d /\ f % 2 = 1) THEN f + 1 ELSE f

DigitChars == <<"0", "1", "2", "3", "4", "5", "6", "7", "8", "9">>

\* the decimal digits of n >= 0, at least `width` of them
RECURSIVE Decimal(_, _)
Decimal(n, width) ==
    IF n < 10 /\ width <= 1 THEN DigitChars[n + 1]
    ELSE Decimal(n \div 10, width - 1) \o DigitChars[(n % 10) + 1]

RECURSIVE Zeros(_)
Zeros(k) == IF k <= 0 THEN "" ELSE "0" \o Zeros(k - 1)

\* m (six significant digits) without its trailing zeros: the pair of
\* what is left and how many digits it has
RECURSIVE StripZeros(_, _)
StripZeros(m, digits) ==
    IF digits > 1 /\ m % 10 = 0 THEN StripZeros(m \div 10, digits - 1)
    ELSE <<m, digits>>

\* the text of p / q > 0
FormatPositive(p, q) ==
    LET e0 == Exponent10(p, q)
        m0 == IF e0 <= 5 THEN RoundHalfEven(p * Pow10(5 - e0), q)
              ELSE RoundHalfEven(p, q * Pow10(e0 - 5))
        \* rounding up to 1000000 moves to the next decade
        e  == IF m0 = 1000000 THEN e0 + 1 ELSE e0
        m  == IF m0 = 1000000 THEN 100000 ELSE m0
        s  == StripZeros(m, 6)
        sm == s[1]
        sd == s[2]
    IN  IF e < -4 \/ e >= 6
        THEN \* scientific: d[.ddddd]e(+|-)XX
             Decimal(sm \div Pow10(sd - 1), 1)
             \o (IF sd > 1 THEN "." \o Decimal(sm % Pow10(sd - 1), sd - 1) ELSE "")
             \o "e" \o (IF e < 0 THEN "-" ELSE "+") \o Decimal(Abs(e), 2)
        ELSE IF e < 0
        THEN \* fixed, below one
             "0." \o Zeros(-e - 1) \o Decimal(sm, sd)
        ELSE IF sd <= e + 1
        THEN \* fixed, an integer
             Decimal(sm, sd) \o Zeros(e + 1 - sd)
        ELSE \* fixed, with a fraction
             Decimal(sm \div Pow10(sd - e - 1), e + 1) \o "."
             \o Decimal(sm % Pow10(sd - e - 1), sd - e - 1)

FormatDouble(x) ==
    IF IsNaN(x) THEN "nan"
    ELSE (IF SignOf(x) < 0 THEN "-" ELSE "")
         \o (IF IsInf(x) THEN "inf"
             ELSE IF IsZero(x) THEN "0"
             ELSE FormatPositive(Abs(x.num), x.den))

(***************************************************************************)
(* Ostream_visitor and print_value: the text written for a value.          *)
(***************************************************************************)
\* (mutant) a number that has no fraction written with one, and a string
\* written as a literal, in quotes
Ostream_visitor_literal(value) ==
    CASE value.type = "string" -> "\"" \o value.str \o "\""
      [] value.type = "number" ->
           IF ~IsNaN(value) /\ ~IsInf(value) /\ Abs(value.den) = 1
           THEN FormatDouble(value) \o ".0"
           ELSE FormatDouble(value)
      [] value.type = "bool"   -> (IF value.b THEN "true" ELSE "false")
      [] value.type = "nil"    -> "nil"

Ostream_visitor(value) ==
    CASE value.type = "string" -> value.str
      [] value.type = "number" -> FormatDouble(value)
      [] value.type = "bool"   -> (IF value.b THEN "true" ELSE "false")
      [] value.type = "nil"    -> "nil"

print_value(value) == Ostream_visitor(value)

(***************************************************************************)
(* Op_code (chunk.hpp): one byte each, numbered in the order the           *)
(* specification lists them, which is the order of the cases of VM::run.   *)
(***************************************************************************)
Op_code ==
    [constant |-> 0, nil |-> 1, true_ |-> 2, false_ |-> 3, pop |-> 4,
     get_local |-> 5, set_local |-> 6, get_global |-> 7, set_global |-> 8,
     define_global |-> 9, equal |-> 10, greater |-> 11, less |-> 12,
     add |-> 13, subtract |-> 14, multiply |-> 15, divide |-> 16,
     not_ |-> 17, negate |-> 18, print |-> 19, jump |-> 20,
     jump_if_false |-> 21, loop |-> 22, return_ |-> 23]

(***************************************************************************)
(* The two bytes of a jump operand.  VM::run reads them with               *)
(* reinterpret_cast<const uint16_t&>, that is in the byte order of the     *)
(* host, and the compiler writes what the VM reads.                        *)
(***************************************************************************)
uint16_bytes(n, little_endian) ==
    IF little_endian THEN <<n % 256, n \div 256>> ELSE <<n \div 256, n % 256>>

\* reinterpret_cast<const uint16_t&>(*ip_), ip the offset of the first byte
read_uint16(code, ip, little_endian) ==
    IF little_endian THEN code[ip + 1] + 256 * code[ip + 2]
    ELSE 256 * code[ip + 1] + code[ip + 2]

(***************************************************************************)
(* The single-pass compiler, from the specification (4.5).  A source is    *)
(* given parsed: a sequence of declarations, each a tuple headed by its    *)
(* kind.                                                                   *)
(*   expressions  <<"literal", v>>  <<"variable", name>>                   *)
(*                <<"assign", name, e>>  <<"unary", op, e>>                *)
(*                <<"binary", op, l, r>>  <<"and", l, r>>  <<"or", l, r>>  *)
(*   statements   <<"expression", e>>  <<"print", e>>  <<"var", name, e>>  *)
(*                <<"if", c, then, else>>  <<"while", c, body>>            *)
(*                <<"block", declarations>>  <<"none">> (no else branch)   *)
(* The state of a compilation is the chunk so far (code, constants,        *)
(* lines), the locals in scope and the scope depth.  With them it keeps    *)
(* where each statement and each and/or expression was put in the code     *)
(* (`statements`, `logicals`), for the properties that speak of them.      *)
(***************************************************************************)
new_compiler(little_endian) ==
    [code |-> <<>>, constants |-> <<>>, lines |-> <<>>,
     locals |-> <<>>, scope_depth |-> 0, little_endian |-> little_endian,
     statements |-> <<>>, logicals |-> <<>>]

\* Chunk: append one byte, on source line 1
emit_byte(c, byte) ==
    [c EXCEPT !.code = Append(@, byte), !.lines = Append(@, 1)]

\* CONSTANT k, the value added to the constant pool at index k
emit_constant(c, value) ==
    LET k == Len(c.constants)
    IN  emit_byte(emit_byte([c EXCEPT !.constants = Append(@, value)],
                            Op_code.constant), k)

\* an instruction whose operand is the pool index of a variable's name
emit_named(c, op, name) ==
    LET k == Len(c.constants)
    IN  emit_byte(emit_byte([c EXCEPT !.constants = Append(@, String(name))], op), k)

\* a jump with the operand 0,0 to be patched: the operand's offset is the
\* length of the code less two
emit_jump(c, op) == emit_byte(emit_byte(emit_byte(c, op), 0), 0)

\* patch the jump whose operand is at `offset` to land on the next byte
\* emitted: the distance from the byte after the operand
patch_jump(c, offset) ==
    LET distance == Len(c.code) - offset - 2
        bytes == uint16_bytes(distance, c.little_endian)
    IN  [c EXCEPT !.code = [@ EXCEPT ![offset + 1] = bytes[1],
                                     ![offset + 2] = bytes[2]]]

\* LOOP with the backward distance to loop_start, as VM::run takes it:
\* from the LOOP opcode itself
emit_loop(c, loop_start) ==
    LET distance == Len(c.code) - loop_start
        bytes == uint16_bytes(distance, c.little_endian)
    IN  emit_byte(emit_byte(emit_byte(c, Op_code.loop), bytes[1]), bytes[2])

\* resolve_local: the slot of the innermost local of that name, or -1
RECURSIVE resolve_local(_, _)
resolve_local(locals, name) ==
    IF locals = <<>> THEN -1
    ELSE IF locals[Len(locals)] = name THEN Len(locals) - 1
    ELSE resolve_local(SubSeq(locals, 1, Len(locals) - 1), name)

binary_op(op) ==
    CASE op = "==" -> Op_code.equal
      [] op = ">"  -> Op_code.greater
      [] op = "<"  -> Op_code.less
      [] op = "+"  -> Op_code.add
      [] op = "-"  -> Op_code.subtract
      [] op = "*"  -> Op_code.multiply
      [] op = "/"  -> Op_code.divide

RECURSIVE expression(_, _)
expression(c, e) ==
    CASE e[1] = "literal" ->
           (CASE e[2].type = "nil" -> emit_byte(c, Op_code.nil)
              [] e[2].type = "bool" ->
                   emit_byte(c, IF e[2].b THEN Op_code.true_ ELSE Op_code.false_)
              [] OTHER -> emit_constant(c, e[2]))
      [] e[1] = "variable" ->
           LET slot == resolve_local(c.locals, e[2])
           IN  IF slot >= 0
               THEN emit_byte(emit_byte(c, Op_code.get_local), slot)
               ELSE emit_named(c, Op_code.get_global, e[2])
      [] e[1] = "assign" ->
           LET slot == resolve_local(c.locals, e[2])
           IN  IF slot >= 0
               THEN emit_byte(emit_byte(expression(c, e[3]), Op_code.set_local), slot)
               ELSE LET k == Len(c.constants)
                        named == [c EXCEPT !.constants = Append(@, String(e[2]))]
                    IN  emit_byte(emit_byte(expression(named, e[3]),
                                            Op_code.set_global), k)
      [] e[1] = "unary" ->
           emit_byte(expression(c, e[3]),
                     IF e[2] = "!" THEN Op_code.not_ ELSE Op_code.negate)
      [] e[1] = "binary" ->
           emit_byte(expression(expression(c, e[3]), e[4]), binary_op(e[2]))
      [] e[1] = "and" ->
           \* a; JUMP_IF_FALSE over; POP; b
           LET start == Len(c.code)
               left == emit_jump(expression(c, e[2]), Op_code.jump_if_false)
               end_jump == Len(left.code) - 2
               popped == emit_byte(left, Op_code.pop)
               right == patch_jump(expression(popped, e[3]), end_jump)
           IN  [right EXCEPT !.logicals =
                   Append(@, [op |-> "and", start |-> start, test |-> end_jump - 1,
                              right |-> Len(popped.code), end |-> Len(right.code),
                              left_operand |-> e[2], right_operand |-> e[3]])]
      [] e[1] = "or" ->
           \* a; JUMP_IF_FALSE to the POP; JUMP over; POP; b
           LET start == Len(c.code)
               left == emit_jump(expression(c, e[2]), Op_code.jump_if_false)
               else_jump == Len(left.code) - 2
               jumped == emit_jump(left, Op_code.jump)
               end_jump == Len(jumped.code) - 2
               popped == emit_byte(patch_jump(jumped, else_jump), Op_code.pop)
               right == patch_jump(expression(popped, e[3]), end_jump)
           IN  [right EXCEPT !.logicals =
                   Append(@, [op |-> "or", start |-> start, test |-> else_jump - 1,
                              right |-> Len(popped.code), end |-> Len(right.code),
                              left_operand |-> e[2], right_operand |-> e[3]])]

\* end_scope: one POP for each local of the scope that ends
RECURSIVE end_scope(_, _)
end_scope(c, n_locals) ==
    IF Len(c.locals) <= n_locals THEN c
    ELSE end_scope(emit_byte([c EXCEPT !.locals = SubSeq(@, 1, Len(@) - 1)],
                             Op_code.pop), n_locals)

\* a statement that was put at [start, end) of the code
marked(c, kind, start) ==
    [c EXCEPT !.statements =
        Append(@, [kind |-> kind, start |-> start, end |-> Len(c.code)])]

RECURSIVE statement(_, _)
RECURSIVE declarations(_, _)
statement(c, s) ==
    LET start == Len(c.code)
    IN  CASE s[1] = "none" -> c
          [] s[1] = "expression" ->
               marked(emit_byte(expression(c, s[2]), Op_code.pop), "expression", start)
          [] s[1] = "print" ->
               marked(emit_byte(expression(c, s[2]), Op_code.print), "print", start)
          [] s[1] = "var" ->
               IF c.scope_depth > 0
               THEN \* a local: the initializer's value is the slot
                    [expression(c, s[3]) EXCEPT !.locals = Append(@, s[2])]
               ELSE LET k == Len(c.constants)
                        named == [c EXCEPT !.constants = Append(@, String(s[2]))]
                    IN  marked(emit_byte(emit_byte(expression(named, s[3]),
                                                   Op_code.define_global), k),
                               "var", start)
          [] s[1] = "if" ->
               LET cond == emit_jump(expression(c, s[2]), Op_code.jump_if_false)
                   then_jump == Len(cond.code) - 2
                   then_ == emit_jump(statement(emit_byte(cond, Op_code.pop), s[3]),
                                      Op_code.jump)
                   else_jump == Len(then_.code) - 2
                   else_ == statement(emit_byte(patch_jump(then_, then_jump),
                                                Op_code.pop), s[4])
               IN  marked(patch_jump(else_, else_jump), "if", start)
          [] s[1] = "while" ->
               LET cond == emit_jump(expression(c, s[2]), Op_code.jump_if_false)
                   exit_jump == Len(cond.code) - 2
                   body == statement(emit_byte(cond, Op_code.pop), s[3])
                   looped == patch_jump(emit_loop(body, start), exit_jump)
               IN  marked(emit_byte(looped, Op_code.pop), "while", start)
          [] s[1] = "block" ->
               LET inner == declarations([c EXCEPT !.scope_depth = @ + 1], s[2])
               IN  [end_scope(inner, Len(c.locals)) EXCEPT !.scope_depth = @ - 1]

declarations(c, ss) ==
    \* one after the other; the sequence is halved rather than walked, and
    \* the first half is computed before the second is begun, so that a
    \* long block is within TLC's reach
    IF ss = <<>> THEN c
    ELSE IF Len(ss) = 1 THEN statement(c, ss[1])
    ELSE LET half == Len(ss) \div 2
             first == declarations(c, SubSeq(ss, 1, half))
         IN  IF Len(first.code) >= 0
             THEN declarations(first, SubSeq(ss, half + 1, Len(ss)))
             ELSE first

\* compile(source): the declarations, then RETURN
compile(source, little_endian) ==
    emit_byte(declarations(new_compiler(little_endian), source), Op_code.return_)

(***************************************************************************)
(* The sources interpreted.                                                *)
(***************************************************************************)
Number(n) == IF n = 0 THEN Zero(1) ELSE Double(n, 1)

Literals ==
    {Nil, Bool(TRUE), Bool(FALSE), String(""), String("a")}
        \cup {Number(n) : n \in 0 .. MaxNum}

Lit(v) == <<"literal", v>>

Atoms == {Lit(v) : v \in Literals}

BinaryOps == {"==", ">", "<", "+", "-", "*", "/"}

Operations ==
    {<<"unary", op, e>> : op \in {"!", "-"}, e \in Atoms}
        \cup {<<"binary", op, l, r>> : op \in BinaryOps, l \in Atoms, r \in Atoms}
        \cup {<<op, l, r>> : op \in {"and", "or"}, l \in Atoms, r \in Atoms}

\* the long if statement: a then branch of LongBody statements `nil;`
LongIf(c) ==
    <<"if", Lit(c),
      <<"block", [i \in 1 .. LongBody |-> <<"expression", Lit(Nil)>>]>>,
      <<"print", Lit(Number(1))>>>>

\* sources that are also tried after an earlier interpret on the same VM
ReplSources ==
    { <<<<"var", "a", Lit(Number(1))>>>>,
      <<<<"var", "a", Lit(String("a"))>>>>,
      <<<<"print", <<"variable", "a">>>>>>,
      <<<<"expression", <<"assign", "a", Lit(Number(2))>>>>>>,
      <<<<"expression", <<"binary", "+", Lit(Number(1)), Lit(Nil)>>>>>>,
      <<<<"expression", <<"binary", "-", Lit(Nil), Lit(Number(1))>>>>>>,
      <<<<"expression", <<"unary", "-", Lit(Nil)>>>>>>,
      <<<<"block", << <<"var", "x", Lit(Number(1))>>,
                      <<"expression", <<"assign", "x", Lit(Number(2))>>>>,
                      <<"print", <<"variable", "x">>>> >>>>>> }

Sources ==
    ReplSources
        \cup {<<<<"expression", e>>>> : e \in Atoms \cup Operations}
        \cup {<<<<"print", e>>>> : e \in Atoms \cup Operations}
        \cup {<<<<"var", "a", e>>>> : e \in Atoms}
        \cup {<<<<"if", c, <<"print", Lit(String("a"))>>, else_>>>> :
                 c \in Atoms,
                 else_ \in {<<"none">>, <<"expression", Lit(Number(1))>>}}
        \cup {<<<<"while", c, <<"print", Lit(Nil)>>>>>> :
                 c \in {Lit(Nil), Lit(Bool(FALSE))}}
        \cup {<<LongIf(c)>> : c \in {Bool(TRUE), Bool(FALSE)}}
        \cup { \* print 1 + 2 * 3;
               <<<<"print", <<"binary", "+", Lit(Number(1)),
                              <<"binary", "*", Lit(Number(2)), Lit(Double(3, 1))>>>>>>>>,
               \* var a = true; while (a) a = false; print a;
               << <<"var", "a", Lit(Bool(TRUE))>>,
                  <<"while", <<"variable", "a">>,
                    <<"expression", <<"assign", "a", Lit(Bool(FALSE))>>>>>>,
                  <<"print", <<"variable", "a">>>> >>,
               \* var a = 0; while (a < 2) { print a; a = a + 1; }
               << <<"var", "a", Lit(Number(0))>>,
                  <<"while", <<"binary", "<", <<"variable", "a">>, Lit(Double(2, 1))>>,
                    <<"block", << <<"print", <<"variable", "a">>>>,
                                  <<"expression",
                                    <<"assign", "a",
                                      <<"binary", "+", <<"variable", "a">>,
                                        Lit(Number(1))>>>>>> >>>>>> >>,
               \* var a = 0 / 0; print a == a;
               << <<"var", "a", <<"binary", "/", Lit(Number(0)), Lit(Number(0))>>>>,
                  <<"print", <<"binary", "==", <<"variable", "a">>,
                               <<"variable", "a">>>>>> >>,
               \* var a = 1; a = a - 2; print a; print -a;
               << <<"var", "a", Lit(Number(1))>>,
                  <<"expression",
                    <<"assign", "a", <<"binary", "-", <<"variable", "a">>,
                                       Lit(Double(2, 1))>>>>>>,
                  <<"print", <<"variable", "a">>>>,
                  <<"print", <<"unary", "-", <<"variable", "a">>>>>> >>,
               \* { var x = 1; { var y = "a"; if (x == y) print x; else print y; } }
               << <<"block", << <<"var", "x", Lit(Number(1))>>,
                    <<"block", << <<"var", "y", Lit(String("a"))>>,
                       <<"if", <<"binary", "==", <<"variable", "x">>,
                                 <<"variable", "y">>>>,
                         <<"print", <<"variable", "x">>>>,
                         <<"print", <<"variable", "y">>>>>> >>>> >>>> >>,
               \* { var x = 1; if (true) print "a"; }
               << <<"block", << <<"var", "x", Lit(Number(1))>>,
                    <<"if", Lit(Bool(TRUE)), <<"print", Lit(String("a"))>>,
                      <<"none">>>> >>>> >>,
               \* print "a" + "b" + "a"; print nil or (false and 1);
               << <<"print", <<"binary", "+",
                               <<"binary", "+", Lit(String("a")), Lit(String("b"))>>,
                               Lit(String("a"))>>>>,
                  <<"print", <<"or", Lit(Nil),
                               <<"and", Lit(Bool(FALSE)), Lit(Number(1))>>>>>> >>,
               \* var a = 1; var b = "b"; a = 2; print b;
               << <<"var", "a", Lit(Number(1))>>,
                  <<"var", "b", Lit(String("b"))>>,
                  <<"expression", <<"assign", "a", Lit(Double(2, 1))>>>>,
                  <<"print", <<"variable", "b">>>> >> }

(***************************************************************************)
(* The state of a VM and of the program around it.                         *)
(*   chunk_    the chunk being run: code, constants, lines                 *)
(*   ip_       offset of the next byte of chunk_.code to read              *)
(*   stack_    the operand stack, the top at the end                       *)
(*   globals_  the bindings of the global variables, a function on the     *)
(*             names that are bound                                        *)
(*   status    "idle" before the first interpret, "running" inside         *)
(*             run's loop, "returned" after RETURN, "thrown" after an      *)
(*             exception left run and interpret                            *)
(*   thrown    the type of that exception                                  *)
(*   cout      everything written to std::cout                             *)
(*   host_little_endian   the byte order of the host                       *)
(* and, to state properties with,                                          *)
(*   source    the source given to the interpret under way                 *)
(*   calls     how many times interpret was called                         *)
(*   printed   what the PRINT instructions wrote, in order                 *)
(*   history   ip_, stack_ and globals_ at the head of each iteration of   *)
(*             run's loop since interpret was called                       *)
(***************************************************************************)
VARIABLES chunk_, ip_, stack_, globals_, status, thrown, cout,
          host_little_endian, source, calls, printed, history

vars == <<chunk_, ip_, stack_, globals_, status, thrown, cout,
          host_little_endian, source, calls, printed, history>>

Init ==
    /\ chunk_ = [code |-> <<>>, constants |-> <<>>, lines |-> <<>>]
    /\ ip_ = 0
    /\ stack_ = <<>>
    /\ globals_ = <<>>
    /\ status = "idle"
    /\ thrown = "none"
    /\ cout = ""
    /\ host_little_endian \in BOOLEAN
    /\ source = <<>>
    /\ calls = 0
    /\ printed = ""
    /\ history = <<>>

(***************************************************************************)
(* The visitors.                                                           *)
(***************************************************************************)
\* (mutant) truthiness as C has it: the number 0 is falsey too
Is_truthy_visitor_zero_falsey(value) ==
    CASE value.type = "bool"   -> value.b
      [] value.type = "nil"    -> FALSE
      [] value.type = "number" -> ~IsZero(value)
      [] OTHER                 -> TRUE

\* Only false and nil are falsey, everything else is truthy
Is_truthy_visitor(value) ==
    CASE value.type = "bool" -> value.b
      [] value.type = "nil"  -> FALSE
      [] OTHER               -> TRUE

\* (mutant) no overload for different types: the falsey values nil and
\* false are taken for equal
Is_equal_visitor_falsey_equal(lhs, rhs) ==
    IF lhs.type # rhs.type
    THEN {lhs.type, rhs.type} = {"nil", "bool"} /\ ~lhs.b /\ ~rhs.b
    ELSE CASE lhs.type = "nil"    -> TRUE
           [] lhs.type = "bool"   -> lhs.b = rhs.b
           [] lhs.type = "number" -> DoubleEqual(lhs, rhs)
           [] lhs.type = "string" -> lhs.str = rhs.str

\* (mutant) an overload for a bool on the left, which compares it with the
\* right value converted to bool
Is_equal_visitor_bool_on_left(lhs, rhs) ==
    IF lhs.type = "bool" /\ rhs.type \in {"number", "nil"}
    THEN lhs.b = (rhs.type = "number" /\ ~IsZero(rhs))
    ELSE IF lhs.type # rhs.type THEN FALSE
    ELSE CASE lhs.type = "nil"    -> TRUE
           [] lhs.type = "bool"   -> lhs.b = rhs.b
           [] lhs.type = "number" -> DoubleEqual(lhs, rhs)
           [] lhs.type = "string" -> lhs.str = rhs.str

\* Different types compare false, same types use operator==
Is_equal_visitor(lhs, rhs) ==
    IF lhs.type # rhs.type THEN FALSE
    ELSE CASE lhs.type = "nil"    -> TRUE
           [] lhs.type = "bool"   -> lhs.b = rhs.b
           [] lhs.type = "number" -> DoubleEqual(lhs, rhs)
           [] lhs.type = "string" -> lhs.str = rhs.str

\* (mutant) the strings concatenated the wrong way round
Plus_visitor_swapped(lhs, rhs) ==
    IF lhs.type = "string" /\ rhs.type = "string"
    THEN [threw |-> "none", value |-> String(rhs.str \o lhs.str)]
    ELSE IF lhs.type = "number" /\ rhs.type = "number"
    THEN [threw |-> "none", value |-> DoubleAdd(lhs, rhs)]
    ELSE [threw |-> "VM_error", value |-> Nil]

\* Two strings or two numbers; every other combination throws VM_error
Plus_visitor(lhs, rhs) ==
    IF lhs.type = "string" /\ rhs.type = "string"
    THEN [threw |-> "none", value |-> String(lhs.str \o rhs.str)]
    ELSE IF lhs.type = "number" /\ rhs.type = "number"
    THEN [threw |-> "none", value |-> DoubleAdd(lhs, rhs)]
    ELSE [threw |-> "VM_error", value |-> Nil]

(***************************************************************************)
(* The head of run's loop: the stack and the instruction at ip_ are        *)
(* written to cout, on every iteration.                                    *)
(***************************************************************************)
RECURSIVE stack_text(_)
stack_text(stack) ==
    IF stack = <<>> THEN ""
    ELSE stack_text(SubSeq(stack, 1, Len(stack) - 1))
         \o "[ " \o print_value(stack[Len(stack)]) \o " ]"

Op_names ==
    <<"CONSTANT", "NIL", "TRUE", "FALSE", "POP", "GET_LOCAL", "SET_LOCAL",
      "GET_GLOBAL", "SET_GLOBAL", "DEFINE_GLOBAL", "EQUAL", "GREATER", "LESS",
      "ADD", "SUBTRACT", "MULTIPLY", "DIVIDE", "NOT", "NEGATE", "PRINT", "JUMP",
      "JUMP_IF_FALSE", "LOOP", "RETURN">>

\* debug.hpp, from the specification (4.6): offset, line (| when it is the
\* line of the previous offset), the name of the opcode
disassemble_instruction(chunk, offset) ==
    Decimal(offset, 4) \o " "
    \o (IF offset > 0 /\ chunk.lines[offset + 1] = chunk.lines[offset]
        THEN "   |" ELSE Decimal(chunk.lines[offset + 1], 4))
    \o " " \o Op_names[chunk.code[offset + 1] + 1] \o "\n"

trace_text ==
    "          " \o stack_text(stack_) \o "\n"
    \o disassemble_instruction(chunk_, ip_)

(***************************************************************************)
(* How an iteration of the loop ends.                                      *)
(***************************************************************************)
Top(stack) == stack[Len(stack)]

Pop(stack) == SubSeq(stack, 1, Len(stack) - 1)

\* std::map::operator[] =, on a function whose domain is the bound names
Bind(globals, name, value) ==
    [n \in DOMAIN globals \cup {name} |-> IF n = name THEN value ELSE globals[n]]

\* static_cast<Op_code>(*ip_++) is `op`
Fetched(op) ==
    /\ status = "running"
    /\ ip_ >= 0
    /\ ip_ < Len(chunk_.code)
    /\ chunk_.code[ip_ + 1] = op

Observed ==
    /\ history' = Append(history, [ip |-> ip_, stack |-> stack_, globals |-> globals_])
    /\ UNCHANGED <<chunk_, host_little_endian, source, calls>>

\* break: the next iteration follows
Continue(ip, stack, globals, text) ==
    /\ ip_' = ip
    /\ stack_' = stack
    /\ globals_' = globals
    /\ cout' = cout \o trace_text \o text
    /\ printed' = printed \o text
    /\ status' = "running"
    /\ thrown' = "none"
    /\ Observed

\* throw: the exception leaves run and interpret
Throw(exception, ip, stack) ==
    /\ ip_' = ip
    /\ stack_' = stack
    /\ cout' = cout \o trace_text
    /\ status' = "thrown"
    /\ thrown' = exception
    /\ UNCHANGED <<globals_, printed>>
    /\ Observed

(***************************************************************************)
(* VM::interpret: compile the source, point chunk_ and ip_ at the chunk    *)
(* and run.  stack_ and globals_ are what the VM holds from before.  The   *)
(* iterations of run's loop are the actions that follow.  The chunk is a   *)
(* local of interpret: once run is left chunk_ and ip_ dangle, and they    *)
(* are not used again before the next interpret sets them.                 *)
(* Sessions of more than one call are explored for the ReplSources.        *)
(***************************************************************************)
\* (mutant) a VM that starts every interpret with no global bound
interpret_fresh_globals(src) ==
    /\ status # "running"
    /\ calls < MaxCalls
    /\ calls > 0 => (src \in ReplSources /\ source \in ReplSources)
    /\ LET chunk == compile(src, host_little_endian)
       IN  chunk_' = [code |-> chunk.code, constants |-> chunk.constants,
                      lines |-> chunk.lines]
    /\ ip_' = 0
    /\ status' = "running"
    /\ thrown' = "none"
    /\ source' = src
    /\ calls' = calls + 1
    /\ history' = <<>>
    /\ globals_' = <<>>
    /\ UNCHANGED <<stack_, cout, printed, host_little_endian>>

interpret(src) ==
    /\ status # "running"
    /\ calls < MaxCalls
    /\ calls > 0 => (src \in ReplSources /\ source \in ReplSources)
    /\ LET chunk == compile(src, host_little_endian)
       IN  chunk_' = [code |-> chunk.code, constants |-> chunk.constants,
                      lines |-> chunk.lines]
    /\ ip_' = 0
    /\ status' = "running"
    /\ thrown' = "none"
    /\ source' = src
    /\ calls' = calls + 1
    /\ history' = <<>>
    /\ UNCHANGED <<stack_, globals_, cout, printed, host_little_endian>>

Interpret == \E src \in Sources : interpret(src)

(***************************************************************************)
(* VM::run, one action for each case of the switch.  In each, ip_ + 1 is   *)
(* ip_ after the opcode was fetched.  The containers are used as the       *)
(* compiled code uses them: pop_back and back are applied to a stack that  *)
(* is not empty.                                                           *)
(***************************************************************************)
\* (mutant) the constant moved out of the pool rather than copied: nil is
\* left in its place
Op_constant_moving ==
    /\ Fetched(Op_code.constant)
    /\ chunk_.code[ip_ + 2] < Len(chunk_.constants)
    /\ ip_' = ip_ + 2
    /\ stack_' = Append(stack_, chunk_.constants[chunk_.code[ip_ + 2] + 1])
    /\ chunk_' = [chunk_ EXCEPT !.constants[chunk_.code[ip_ + 2] + 1] = Nil]
    /\ cout' = cout \o trace_text
    /\ history' = Append(history, [ip |-> ip_, stack |-> stack_, globals |-> globals_])
    /\ UNCHANGED <<globals_, printed, status, thrown, host_little_endian, source, calls>>

Op_constant ==
    /\ Fetched(Op_code.constant)
    /\ LET constant_offset == chunk_.code[ip_ + 2]
       IN  IF constant_offset < Len(chunk_.constants)
           THEN Continue(ip_ + 2, Append(stack_, chunk_.constants[constant_offset + 1]),
                         globals_, "")
           ELSE Throw("std::out_of_range", ip_ + 2, stack_)

Op_nil ==
    /\ Fetched(Op_code.nil)
    /\ Continue(ip_ + 1, Append(stack_, Nil), globals_, "")

Op_true ==
    /\ Fetched(Op_code.true_)
    /\ Continue(ip_ + 1, Append(stack_, Bool(TRUE)), globals_, "")

Op_false ==
    /\ Fetched(Op_code.false_)
    /\ Continue(ip_ + 1, Append(stack_, Bool(FALSE)), globals_, "")

Op_pop ==
    /\ Fetched(Op_code.pop)
    /\ stack_ # <<>>
    /\ Continue(ip_ + 1, Pop(stack_), globals_, "")

\* (mutant) the slot counted from the top of the stack
Op_get_local_from_top ==
    /\ Fetched(Op_code.get_local)
    /\ LET slot == chunk_.code[ip_ + 2]
       IN  IF slot < Len(stack_)
           THEN Continue(ip_ + 2, Append(stack_, stack_[Len(stack_) - slot]), globals_, "")
           ELSE Throw("std::out_of_range", ip_ + 2, stack_)

Op_get_local ==
    /\ Fetched(Op_code.get_local)
    /\ LET slot == chunk_.code[ip_ + 2]
       IN  IF slot < Len(stack_)
           THEN Continue(ip_ + 2, Append(stack_, stack_[slot + 1]), globals_, "")
           ELSE Throw("std::out_of_range", ip_ + 2, stack_)

Op_set_local ==
    /\ Fetched(Op_code.set_local)
    /\ stack_ # <<>>
    /\ LET slot == chunk_.code[ip_ + 2]
       IN  IF slot < Len(stack_)
           THEN Continue(ip_ + 2, [stack_ EXCEPT ![slot + 1] = Top(stack_)], globals_, "")
           ELSE Throw("std::out_of_range", ip_ + 2, stack_)

\* get<string>(chunk_->constants.at(*ip_++).variant): the name, or what is thrown
name_operand ==
    LET k == chunk_.code[ip_ + 2]
    IN  IF k >= Len(chunk_.constants)
        THEN [threw |-> "std::out_of_range", name |-> ""]
        ELSE IF chunk_.constants[k + 1].type # "string"
        THEN [threw |-> "boost::bad_get", name |-> ""]
        ELSE [threw |-> "none", name |-> chunk_.constants[k + 1].str]

Op_get_global ==
    /\ Fetched(Op_code.get_global)
    /\ LET operand == name_operand
       IN  IF operand.threw # "none" THEN Throw(operand.threw, ip_ + 2, stack_)
           ELSE IF operand.name \notin DOMAIN globals_
           THEN Throw("VM_error", ip_ + 2, stack_)
           ELSE Continue(ip_ + 2, Append(stack_, globals_[operand.name]), globals_, "")

\* (mutant) globals_[name] = stack_.back() without the lookup: an
\* assignment to a name that is not bound binds it
Op_set_global_binding ==
    /\ Fetched(Op_code.set_global)
    /\ stack_ # <<>>
    /\ LET operand == name_operand
       IN  IF operand.threw # "none" THEN Throw(operand.threw, ip_ + 2, stack_)
           ELSE Continue(ip_ + 2, stack_,
                         Bind(globals_, operand.name, Top(stack_)), "")

Op_set_global ==
    /\ Fetched(Op_code.set_global)
    /\ stack_ # <<>>
    /\ LET operand == name_operand
       IN  IF operand.threw # "none" THEN Throw(operand.threw, ip_ + 2, stack_)
           ELSE IF operand.name \notin DOMAIN globals_
           THEN Throw("VM_error", ip_ + 2, stack_)
           ELSE Continue(ip_ + 2, stack_,
                         [globals_ EXCEPT ![operand.name] = Top(stack_)], "")

Op_define_global ==
    /\ Fetched(Op_code.define_global)
    /\ stack_ # <<>>
    /\ LET operand == name_operand
       IN  IF operand.threw # "none" THEN Throw(operand.threw, ip_ + 2, stack_)
           ELSE Continue(ip_ + 2, Pop(stack_),
                         Bind(globals_, operand.name, Top(stack_)), "")

Op_equal ==
    /\ Fetched(Op_code.equal)
    /\ Len(stack_) >= 2
    /\ LET right_value == Top(stack_)
           left_value == Top(Pop(stack_))
       IN  Continue(ip_ + 1,
                    Append(Pop(Pop(stack_)),
                           Bool(Is_equal_visitor(left_value, right_value))),
                    globals_, "")

\* the exception of get<double>(value.variant) on a value that holds no double
get_double_throws == "boost::bad_get"

\* (mutant) the operands taken the other way round: the top as the left
number_result_swapped(op, left_value, right_value) ==
    CASE op = Op_code.greater  -> Bool(DoubleGreater(right_value, left_value))
      [] op = Op_code.less     -> Bool(DoubleLess(right_value, left_value))
      [] op = Op_code.subtract -> DoubleSubtract(right_value, left_value)
      [] op = Op_code.multiply -> DoubleMultiply(right_value, left_value)
      [] op = Op_code.divide   -> DoubleDivide(right_value, left_value)

\* what greater, less, subtract, multiply and divide push
number_result(op, left_value, right_value) ==
    CASE op = Op_code.greater  -> Bool(DoubleGreater(left_value, right_value))
      [] op = Op_code.less     -> Bool(DoubleLess(left_value, right_value))
      [] op = Op_code.subtract -> DoubleSubtract(left_value, right_value)
      [] op = Op_code.multiply -> DoubleMultiply(left_value, right_value)
      [] op = Op_code.divide   -> DoubleDivide(left_value, right_value)

\* greater, less, subtract, multiply, divide: get<double> of the top, pop,
\* get<double> of the new top, pop, push the result
binary_number_case(op) ==
    /\ Fetched(op)
    /\ Len(stack_) >= 2
    /\ IF Top(stack_).type # "number"
       THEN Throw(get_double_throws, ip_ + 1, stack_)
       ELSE LET right_value == Top(stack_)
                popped == Pop(stack_)
            IN  IF Top(popped).type # "number"
                THEN Throw(get_double_throws, ip_ + 1, popped)
                ELSE LET left_value == Top(popped)
                     IN  Continue(ip_ + 1,
                                  Append(Pop(popped),
                                         number_result(op, left_value, right_value)),
                                  globals_, "")

Op_greater == binary_number_case(Op_code.greater)

Op_less == binary_number_case(Op_code.less)

Op_add ==
    /\ Fetched(Op_code.add)
    /\ Len(stack_) >= 2
    /\ LET right_value == Top(stack_)
           left_value == Top(Pop(stack_))
           sum == Plus_visitor(left_value, right_value)
       IN  IF sum.threw # "none"
           THEN Throw(sum.threw, ip_ + 1, Pop(Pop(stack_)))
           ELSE Continue(ip_ + 1, Append(Pop(Pop(stack_)), sum.value), globals_, "")

Op_subtract == binary_number_case(Op_code.subtract)

Op_multiply == binary_number_case(Op_code.multiply)

Op_divide == binary_number_case(Op_code.divide)

Op_not ==
    /\ Fetched(Op_code.not_)
    /\ stack_ # <<>>
    /\ LET value == Is_truthy_visitor(Top(stack_))
       IN  Continue(ip_ + 1, Append(Pop(stack_), Bool(~value)), globals_, "")

Op_negate ==
    /\ Fetched(Op_code.negate)
    /\ stack_ # <<>>
    /\ IF Top(stack_).type # "number"
       THEN Throw(get_double_throws, ip_ + 1, stack_)
       ELSE Continue(ip_ + 1, Append(Pop(stack_), DoubleNegate(Top(stack_))),
                     globals_, "")

Op_print ==
    /\ Fetched(Op_code.print)
    /\ stack_ # <<>>
    /\ Continue(ip_ + 1, Pop(stack_), globals_, print_value(Top(stack_)) \o "\n")

\* (mutant) ip_ += jump_length without ip_ += 2
jump_target_from_operand(ip, jump_length) == ip + jump_length

\* ip_ += 2; ip_ += jump_length, ip being ip_ after the opcode was fetched
jump_target(ip, jump_length) == ip + 2 + jump_length

\* (mutant) the negation left out: jumps if the top of the stack is truthy
jump_if_true_target(ip, jump_length, condition) ==
    IF Is_truthy_visitor(condition) THEN ip + 2 + jump_length ELSE ip + 2

\* ip_ += 2, and ip_ += jump_length if the top of the stack is falsey
jump_if_false_target(ip, jump_length, condition) ==
    IF ~Is_truthy_visitor(condition) THEN ip + 2 + jump_length ELSE ip + 2

\* (mutant) ip_ += 2; ip_ -= jump_length, as JUMP steps over its operand
loop_target_after_operand(ip, jump_length) == ip + 2 - jump_length

\* ip_ -= 1; ip_ -= jump_length
loop_target(ip, jump_length) == ip - 1 - jump_length

Op_jump ==
    /\ Fetched(Op_code.jump)
    /\ ip_ + 2 < Len(chunk_.code)
    /\ LET jump_length == read_uint16(chunk_.code, ip_ + 1, host_little_endian)
       IN  Continue(jump_target(ip_ + 1, jump_length), stack_, globals_, "")

\* (mutant) the condition popped by the jump
Op_jump_if_false_popping ==
    /\ Fetched(Op_code.jump_if_false)
    /\ ip_ + 2 < Len(chunk_.code)
    /\ stack_ # <<>>
    /\ LET jump_length == read_uint16(chunk_.code, ip_ + 1, host_little_endian)
       IN  Continue(jump_if_false_target(ip_ + 1, jump_length, Top(stack_)),
                    Pop(stack_), globals_, "")

Op_jump_if_false ==
    /\ Fetched(Op_code.jump_if_false)
    /\ ip_ + 2 < Len(chunk_.code)
    /\ stack_ # <<>>
    /\ LET jump_length == read_uint16(chunk_.code, ip_ + 1, host_little_endian)
       IN  Continue(jump_if_false_target(ip_ + 1, jump_length, Top(stack_)),
                    stack_, globals_, "")

Op_loop ==
    /\ Fetched(Op_code.loop)
    /\ ip_ + 2 < Len(chunk_.code)
    /\ LET jump_length == read_uint16(chunk_.code, ip_ + 1, host_little_endian)
       IN  Continue(loop_target(ip_ + 1, jump_length), stack_, globals_, "")

\* (mutant) break instead of return: the loop goes on after RETURN
Op_return_continuing ==
    /\ Fetched(Op_code.return_)
    /\ ip_' = ip_ + 1
    /\ cout' = cout \o trace_text
    /\ status' = "running"
    /\ thrown' = "none"
    /\ UNCHANGED <<stack_, globals_, printed>>
    /\ Observed

Op_return ==
    /\ Fetched(Op_code.return_)
    /\ ip_' = ip_ + 1
    /\ cout' = cout \o trace_text
    /\ status' = "returned"
    /\ thrown' = "none"
    /\ UNCHANGED <<stack_, globals_, printed>>
    /\ Observed

Next ==
    \/ Interpret
    \/ Op_constant
    \/ Op_nil
    \/ Op_true
    \/ Op_false
    \/ Op_pop
    \/ Op_get_local
    \/ Op_set_local
    \/ Op_get_global
    \/ Op_set_global
    \/ Op_define_global
    \/ Op_equal
    \/ Op_greater
    \/ Op_less
    \/ Op_add
    \/ Op_subtract
    \/ Op_multiply
    \/ Op_divide
    \/ Op_not
    \/ Op_negate
    \/ Op_print
    \/ Op_jump
    \/ Op_jump_if_false
    \/ Op_loop
    \/ Op_return

Spec == Init /\ [][Next]_vars

(***************************************************************************)
(* run is a loop on the caller's thread with no wait in it: while it is    *)
(* inside the loop and the next iteration can be made, it is made.         *)
(* Nothing obliges the caller to call interpret again.                     *)
(***************************************************************************)
run == status = "running" /\ Next

FairSpec == Init /\ [][Next]_vars /\ WF_vars(run)

(***************************************************************************)
(* What the properties speak of.                                           *)
(***************************************************************************)
\* ip_, stack_ and globals_ when the instruction executed last was begun
last == history[Len(history)]

\* the instruction executed last in this run is `op`
Executed(op) == history # <<>> /\ chunk_.code[last.ip + 1] = op

\* the 16-bit number whose two bytes follow the opcode at `offset`
Operand16(offset) ==
    LET first == chunk_.code[offset + 2]
        second == chunk_.code[offset + 3]
    IN  IF host_little_endian THEN 256 * second + first ELSE 256 * first + second

Falsey(value) == value = Nil \/ value = Bool(FALSE)

\* where the compiler put the statements and the and/or expressions of the
\* source being run
Statements == compile(source, host_little_endian).statements

Logicals == compile(source, host_little_endian).logicals

Range(seq) == {seq[i] : i \in 1 .. Len(seq)}

Inside(m, ip) == m.start <= ip /\ ip < m.end

\* run has just left the code of m by reaching the instruction after it
Left(m) ==
    /\ status = "running"
    /\ history # <<>>
    /\ ip_ = m.end
    /\ Inside(m, last.ip)

\* the iteration, the last of them, at which run came to the first
\* instruction of m from outside m
Entry(m) ==
    LET entries == {i \in 1 .. Len(history) :
                       /\ history[i].ip = m.start
                       /\ i = 1 \/ ~Inside(m, history[i - 1].ip)}
    IN  CHOOSE i \in entries : \A j \in entries : j <= i

(***************************************************************************)
(* C1: when run reaches the first instruction after a statement            *)
(* (expression statement, print, global var declaration, if/else, while),  *)
(* the operand stack is as deep as it was when run reached the statement's *)
(* first instruction, whichever branches were taken.                       *)
(***************************************************************************)
StackDepthPreserved ==
    \A m \in Range(Statements) :
        Left(m) => Len(stack_) = Len(history[Entry(m)].stack)

\* a while statement is left after its body ran and LOOP went back, with a
\* local below it on the stack or not
StackDepthPreservedWitness ==
    \E m \in Range(Statements) :
        /\ m.kind = "while"
        /\ Left(m)
        /\ \E i \in Entry(m) .. Len(history) :
               chunk_.code[history[i].ip + 1] = Op_code.loop

(***************************************************************************)
(* C2: NEGATE, GREATER, LESS, SUBTRACT, MULTIPLY or DIVIDE executed with   *)
(* an operand that is not a number raises a VM_error, whichever operand    *)
(* it is and whatever it holds instead.                                    *)
(***************************************************************************)
NumberOps ==
    {Op_code.greater, Op_code.less, Op_code.subtract, Op_code.multiply,
     Op_code.divide}

NumberOpsRaiseVMError ==
    /\ (Executed(Op_code.negate) /\ Top(last.stack).type # "number")
           => (status = "thrown" /\ thrown = "VM_error")
    /\ \A op \in NumberOps :
           (/\ Executed(op)
            /\ \/ Top(last.stack).type # "number"
               \/ Top(Pop(last.stack)).type # "number")
               => (status = "thrown" /\ thrown = "VM_error")

(***************************************************************************)
(* C3: ADD pops two values and pushes one: the sum of two numbers, or the  *)
(* lower (left) string followed by the top (right) string; for every       *)
(* other pair of types it raises VM_error and pushes nothing.              *)
(***************************************************************************)
AddDispatch ==
    Executed(Op_code.add) =>
        LET right == Top(last.stack)
            left == Top(Pop(last.stack))
            rest == Pop(Pop(last.stack))
        IN  IF left.type = "number" /\ right.type = "number"
            THEN /\ status = "running"
                 /\ stack_ = Append(rest, DoubleAdd(left, right))
            ELSE IF left.type = "string" /\ right.type = "string"
            THEN /\ status = "running"
                 /\ stack_ = Append(rest, String(left.str \o right.str))
            ELSE /\ status = "thrown"
                 /\ thrown = "VM_error"
                 /\ stack_ = rest

\* "a" + "b" left "ab"
AddDispatchWitness ==
    /\ Executed(Op_code.add)
    /\ Top(Pop(last.stack)) = String("a")
    /\ Top(last.stack) = String("b")
    /\ stack_ = Append(Pop(Pop(last.stack)), String("ab"))

(***************************************************************************)
(* C4: false and nil are the falsey values and there are no others: NOT    *)
(* pushes true for them and false for every other value (0 and "" among    *)
(* them); JUMP_IF_FALSE jumps for them and for no other value.             *)
(***************************************************************************)
FalseyExactly ==
    /\ Executed(Op_code.not_) =>
           /\ status = "running"
           /\ stack_ = Append(Pop(last.stack), Bool(Falsey(Top(last.stack))))
    /\ Executed(Op_code.jump_if_false) =>
           /\ status = "running"
           /\ ip_ = IF Falsey(Top(last.stack))
                    THEN last.ip + 3 + Operand16(last.ip)
                    ELSE last.ip + 3

\* the number 0 did not make JUMP_IF_FALSE jump
FalseyExactlyWitness ==
    /\ Executed(Op_code.jump_if_false)
    /\ Top(last.stack) = Number(0)
    /\ Operand16(last.ip) > 0
    /\ ip_ = last.ip + 3

(***************************************************************************)
(* C5: EQUAL raises nothing whatever the two values are: it pops them and  *)
(* pushes false when their types differ, else their equality as values of  *)
(* that type; nil equals nil.                                              *)
(***************************************************************************)
EqualNeverThrows ==
    Executed(Op_code.equal) =>
        LET right == Top(last.stack)
            left == Top(Pop(last.stack))
            same == CASE left.type # right.type -> FALSE
                      [] left.type = "nil" -> TRUE
                      [] left.type = "bool" -> left.b = right.b
                      [] left.type = "string" -> left.str = right.str
                      [] left.type = "number" ->
                           /\ ~IsNaN(left)
                           /\ ~IsNaN(right)
                           /\ left.num * Abs(right.den) = right.num * Abs(left.den)
        IN  /\ status = "running"
            /\ thrown = "none"
            /\ stack_ = Append(Pop(Pop(last.stack)), Bool(same))

\* false == nil left false
EqualNeverThrowsWitness ==
    /\ Executed(Op_code.equal)
    /\ Top(Pop(last.stack)) = Bool(FALSE)
    /\ Top(last.stack) = Nil
    /\ Top(stack_) = Bool(FALSE)

(***************************************************************************)
(* C6: the equality of EQUAL is reflexive on every value but NaN and       *)
(* symmetric: what EQUAL pushed for (a, b) is what the equality gives for  *)
(* (b, a), and a value that is not NaN equals itself.                      *)
(***************************************************************************)
EqualReflexiveSymmetric ==
    Executed(Op_code.equal) =>
        LET right == Top(last.stack)
            left == Top(Pop(last.stack))
        IN  /\ Top(stack_) = Bool(Is_equal_visitor(right, left))
            /\ (left = right /\ ~(left.type = "number" /\ IsNaN(left)))
                   => Top(stack_) = Bool(TRUE)

\* a global holding the number 1, or "a", compared with itself
EqualReflexiveSymmetricWitness ==
    /\ Executed(Op_code.equal)
    /\ Top(last.stack) = Top(Pop(last.stack))
    /\ Top(last.stack).type \in {"number", "string"}
    /\ Top(stack_) = Bool(TRUE)

(***************************************************************************)
(* C7: the code of `a and b` leaves exactly one value, a itself when a is  *)
(* falsey (and then b's code is not executed) and b otherwise; the code of *)
(* `a or b` leaves a itself when a is truthy (b's code not executed) and b *)
(* otherwise.  The value is the operand, not a bool made from it.          *)
(***************************************************************************)
\* the value of an operand that is a literal, as it is on the stack
IsLiteral(e) == e[1] = "literal"

LogicalYieldsOperand ==
    \A m \in Range(Logicals) :
        Left(m) =>
            LET entry == Entry(m)
                before == history[entry].stack
                \* the iteration that executed the JUMP_IF_FALSE of m
                test == CHOOSE i \in entry .. Len(history) : history[i].ip = m.test
                a == Top(history[test].stack)
                decided == IF m.op = "and" THEN Falsey(a) ELSE ~Falsey(a)
                right_ran == \E i \in entry .. Len(history) :
                                 m.right <= history[i].ip /\ history[i].ip < m.end
            IN  /\ IsLiteral(m.left_operand) => a = m.left_operand[2]
                /\ Len(stack_) = Len(before) + 1
                /\ Pop(stack_) = before
                /\ decided => (Top(stack_) = a /\ ~right_ran)
                /\ ~decided =>
                       /\ right_ran
                       /\ IsLiteral(m.right_operand) =>
                              Top(stack_) = m.right_operand[2]

\* `0 and "a"` left "a", the number 0 being truthy
LogicalYieldsOperandWitness ==
    \E m \in Range(Logicals) :
        /\ Left(m)
        /\ m.op = "and"
        /\ m.left_operand = Lit(Number(0))
        /\ m.right_operand = Lit(String("a"))
        /\ Top(stack_) = String("a")

(***************************************************************************)
(* C8: JUMP with operand n sets ip to the offset after its operand plus n; *)
(* JUMP_IF_FALSE does the same when the top of the stack is falsey and     *)
(* else sets ip to the offset after its operand; JUMP_IF_FALSE leaves the  *)
(* stack as it was: the condition is not popped.                           *)
(***************************************************************************)
JumpsForward ==
    /\ Executed(Op_code.jump) =>
           /\ ip_ = last.ip + 3 + Operand16(last.ip)
           /\ stack_ = last.stack
    /\ Executed(Op_code.jump_if_false) =>
           /\ ip_ = last.ip + 3
                    + (IF Falsey(Top(last.stack)) THEN Operand16(last.ip) ELSE 0)
           /\ stack_ = last.stack

\* a JUMP_IF_FALSE that jumped further than one byte can say
JumpsForwardWitness ==
    /\ Executed(Op_code.jump_if_false)
    /\ Operand16(last.ip) > 255
    /\ ip_ = last.ip + 3 + Operand16(last.ip)
    /\ stack_ = last.stack

(***************************************************************************)
(* C9, as claimed: LOOP with operand n moves ip back by n from the byte    *)
(* after its operand, the reference point of JUMP and JUMP_IF_FALSE:       *)
(* after LOOP at offset o, ip = o + 3 - n.                                 *)
(***************************************************************************)
LoopFromAfterOperand ==
    Executed(Op_code.loop) => ip_ = last.ip + 3 - Operand16(last.ip)

(***************************************************************************)
(* C9, amended: LOOP with operand n moves ip back by n from the LOOP       *)
(* opcode itself: after LOOP at offset o, ip = o - n.                      *)
(***************************************************************************)
LoopFromOpcode ==
    Executed(Op_code.loop) =>
        /\ status = "running"
        /\ ip_ = last.ip - Operand16(last.ip)
        /\ stack_ = last.stack

LoopFromOpcodeWitness ==
    /\ Executed(Op_code.loop)
    /\ Operand16(last.ip) > 0
    /\ ip_ = last.ip - Operand16(last.ip)

(***************************************************************************)
(* C10: what a run writes to standard output is the lines of its PRINT     *)
(* instructions in the order executed and nothing else; no stack dump or   *)
(* disassembly is written when tracing is not asked for.                   *)
(***************************************************************************)
OutputIsPrintedLines == cout = printed

\* the name that the instruction executed last has for operand
NameOperand == chunk_.constants[chunk_.code[last.ip + 2] + 1].str

(***************************************************************************)
(* C11: GET_GLOBAL and SET_GLOBAL of a name with no binding raise VM_error *)
(* and run is left; globals is then as it was, and SET_GLOBAL binds no     *)
(* name that was not bound before it.                                      *)
(***************************************************************************)
UnboundGlobalRaises ==
    /\ \A op \in {Op_code.get_global, Op_code.set_global} :
           (Executed(op) /\ NameOperand \notin DOMAIN last.globals) =>
               /\ status = "thrown"
               /\ thrown = "VM_error"
               /\ globals_ = last.globals
    /\ Executed(Op_code.set_global) => DOMAIN globals_ = DOMAIN last.globals

\* `a = 2;` with no a: the error is raised and a stays unbound, the value 2
\* being on the stack
UnboundGlobalRaisesWitness ==
    /\ Executed(Op_code.set_global)
    /\ NameOperand = "a"
    /\ "a" \notin DOMAIN last.globals
    /\ Top(last.stack) = Double(2, 1)
    /\ status = "thrown"
    /\ "a" \notin DOMAIN globals_

\* how many operand bytes follow the opcode `op`
operand_bytes(op) ==
    IF op \in {Op_code.constant, Op_code.get_local, Op_code.set_local,
               Op_code.get_global, Op_code.set_global, Op_code.define_global}
    THEN 1
    ELSE IF op \in {Op_code.jump, Op_code.jump_if_false, Op_code.loop}
    THEN 2
    ELSE 0

\* the offset of the opcode that follows the one at offset o
next_instruction(code, o) ==
    IF o >= Len(code) THEN Len(code) ELSE o + 1 + operand_bytes(code[o + 1])

\* the offset of the opcode 2^k instructions after the one at offset o
RECURSIVE Skip(_, _, _)
Skip(code, o, k) ==
    IF k = 0 THEN next_instruction(code, o)
    ELSE LET middle == Skip(code, o, k - 1)
         IN  IF middle >= Len(code) THEN Len(code) ELSE Skip(code, middle, k - 1)

\* the offsets of the opcodes of the 2^k instructions from offset o on
RECURSIVE OffsetsFrom(_, _, _)
OffsetsFrom(code, o, k) ==
    IF o >= Len(code) THEN {}
    ELSE IF k = 0 THEN {o}
    ELSE LET middle == Skip(code, o, k - 1)
         IN  IF middle >= Len(code) THEN OffsetsFrom(code, o, k - 1)
             ELSE OffsetsFrom(code, o, k - 1) \cup OffsetsFrom(code, middle, k - 1)

\* ceil(log2(n))
RECURSIVE Log2(_)
Log2(n) == IF n <= 1 THEN 0 ELSE 1 + Log2((n + 1) \div 2)

\* the offsets of the opcodes of `code`, decoded from its first byte on
InstructionOffsets(code) == OffsetsFrom(code, 0, Log2(Len(code)))

\* the chunk being run has no LOOP, its JUMP and JUMP_IF_FALSE land on
\* instructions of the code, and its last instruction is RETURN
LoopFreeChunk ==
    LET offsets == InstructionOffsets(chunk_.code)
    IN  /\ \A o \in offsets : chunk_.code[o + 1] # Op_code.loop
        /\ \A o \in offsets :
               chunk_.code[o + 1] \in {Op_code.jump, Op_code.jump_if_false}
                   => (o + 3 + Operand16(o)) \in offsets
        /\ chunk_.code # <<>>
        /\ (Len(chunk_.code) - 1) \in offsets
        /\ chunk_.code[Len(chunk_.code)] = Op_code.return_

(***************************************************************************)
(* C12: RETURN ends run, and no instruction is executed after it (the next *)
(* thing the VM does, if anything, is a new interpret); and a run of a     *)
(* chunk with no LOOP, whose jumps land inside the code and whose last     *)
(* instruction is RETURN, comes to its end, by RETURN or by an exception.  *)
(***************************************************************************)
ReturnEndsRun ==
    /\ [](Executed(Op_code.return_) => status = "returned")
    /\ [][status = "returned" => (status' = "running" /\ history' = <<>>)]_vars
    /\ (status = "running" /\ LoopFreeChunk) ~> (status \in {"returned", "thrown"})

\* an if statement whose JUMP_IF_FALSE and JUMP were both executed, then
\* RETURN: the run is over
ReturnEndsRunWitness ==
    /\ Executed(Op_code.return_)
    /\ status = "returned"
    /\ LoopFreeChunk
    /\ \E i \in 1 .. Len(history) : chunk_.code[history[i].ip + 1] = Op_code.jump
    /\ \E i \in 1 .. Len(history) :
           /\ chunk_.code[history[i].ip + 1] = Op_code.jump_if_false
           /\ Operand16(history[i].ip) > 255

(***************************************************************************)
(* C13: a binding made by DEFINE_GLOBAL or by a successful SET_GLOBAL of   *)
(* k is what every later GET_GLOBAL of k pushes, until the next            *)
(* DEFINE_GLOBAL or SET_GLOBAL of k, later interpret calls on the VM       *)
(* included; DEFINE_GLOBAL of a bound name overwrites it and raises        *)
(* nothing.  Stated step by step: DEFINE_GLOBAL and a successful           *)
(* SET_GLOBAL of k bind k to the top of the stack and leave every other    *)
(* binding; GET_GLOBAL of a bound k pushes the binding that was there      *)
(* when it began; every other instruction, and every interpret, leaves     *)
(* globals as it was.                                                      *)
(***************************************************************************)
GlobalsPersist ==
    /\ [](Executed(Op_code.define_global) =>
              /\ status = "running"
              /\ globals_ = Bind(last.globals, NameOperand, Top(last.stack)))
    /\ []((Executed(Op_code.set_global) /\ status = "running") =>
              /\ NameOperand \in DOMAIN last.globals
              /\ globals_ = [last.globals EXCEPT ![NameOperand] = Top(last.stack)])
    /\ []((Executed(Op_code.get_global) /\ NameOperand \in DOMAIN last.globals) =>
              /\ status = "running"
              /\ stack_ = Append(last.stack, last.globals[NameOperand])
              /\ globals_ = last.globals)
    /\ []((/\ history # <<>>
           /\ ~Executed(Op_code.define_global)
           /\ ~(Executed(Op_code.set_global) /\ status = "running"))
              => globals_ = last.globals)
    \* what an instruction begins with is what the step before it left
    /\ [][history' # <<>> =>
              history'[Len(history')] =
                  [ip |-> ip_, stack |-> stack_, globals |-> globals_]]_vars
    \* a step that executes no instruction is an interpret
    /\ [][history' = <<>> => globals_' = globals_]_vars

\* `var a = "a";` and then, in the next interpret on the VM, `print a;`:
\* GET_GLOBAL pushes "a", no instruction of this run having bound a
GlobalsPersistWitness ==
    /\ calls = 2
    /\ Executed(Op_code.get_global)
    /\ NameOperand = "a"
    /\ \A i \in 1 .. Len(history) :
           chunk_.code[history[i].ip + 1]
               \notin {Op_code.define_global, Op_code.set_global}
    /\ stack_ = Append(last.stack, String("a"))

\* the chunk that interpret gave run: what the compiler made of the source
CompiledChunk ==
    LET chunk == compile(source, host_little_endian)
    IN  [code |-> chunk.code, constants |-> chunk.constants, lines |-> chunk.lines]

(***************************************************************************)
(* C14: no instruction changes the chunk: a step that executes an          *)
(* instruction leaves code, constants and lines as they were, so that at   *)
(* every point of a run they are what interpret started the run with.      *)
(***************************************************************************)
ChunkReadOnly ==
    /\ [][history' # <<>> => chunk_' = chunk_]_vars
    /\ [](calls > 0 => chunk_ = CompiledChunk)

\* a run that executed CONSTANT (twice), a binary instruction and PRINT
\* and returned, the chunk being as compiled
ChunkReadOnlyWitness ==
    /\ status = "returned"
    /\ chunk_ = CompiledChunk
    /\ Len(chunk_.constants) >= 2
    /\ Cardinality({i \in 1 .. Len(history) :
                        chunk_.code[history[i].ip + 1] = Op_code.constant}) >= 2
    /\ \E i \in 1 .. Len(history) : chunk_.code[history[i].ip + 1] = Op_code.print

(***************************************************************************)
(* C15: SUBTRACT, DIVIDE, GREATER and LESS on two numbers take the value   *)
(* pushed earlier (second from the top) as the left operand and the top    *)
(* as the right: with a below b they push a - b, a / b, a > b, a < b, and  *)
(* the two operands are replaced by that one result.                       *)
(***************************************************************************)
OperandOrder ==
    \A op \in {Op_code.subtract, Op_code.divide, Op_code.greater, Op_code.less} :
        (/\ Executed(op)
         /\ Top(last.stack).type = "number"
         /\ Top(Pop(last.stack)).type = "number") =>
            LET b == Top(last.stack)
                a == Top(Pop(last.stack))
                rest == Pop(Pop(last.stack))
                finite == a.den # 0 /\ b.den # 0
                \* a - b, a / b as fractions, and a < b, for finite operands
                difference == a.num * Abs(b.den) - b.num * Abs(a.den)
                below == a.num * Abs(b.den) < b.num * Abs(a.den)
                result == Top(stack_)
            IN  /\ status = "running"
                /\ Len(stack_) = Len(last.stack) - 1
                /\ Pop(stack_) = rest
                /\ result = number_result(op, a, b)
                /\ (op = Op_code.subtract /\ finite) =>
                       result.num * Abs(a.den) * Abs(b.den) = difference * Abs(result.den)
                /\ (op = Op_code.divide /\ finite /\ ~IsZero(b)) =>
                       result.num * b.num * Abs(a.den)
                           = a.num * Abs(b.den) * Abs(result.den)
                /\ (op = Op_code.less /\ finite) => result = Bool(below)
                /\ (op = Op_code.greater /\ finite) =>
                       result = Bool(b.num * Abs(a.den) < a.num * Abs(b.den))

\* 1 - 2 left -1, and nothing else changed on the stack
OperandOrderWitness ==
    /\ Executed(Op_code.subtract)
    /\ Top(Pop(last.stack)) = Double(1, 1)
    /\ Top(last.stack) = Double(2, 1)
    /\ stack_ = Append(Pop(Pop(last.stack)), Double(-1, 1))

\* the canonical form of nil, a bool, a string, and a number with no
\* fraction and fewer than seven digits; for the other numbers, what the
\* stream's default format gives
CanonicalForm(value) ==
    CASE value.type = "nil" -> "nil"
      [] value.type = "bool" /\ value.b -> "true"
      [] value.type = "bool" /\ ~value.b -> "false"
      [] value.type = "string" -> value.str
      [] value.type = "number" ->
           IF Abs(value.den) = 1 /\ Abs(value.num) < 1000000
           THEN (IF value.num < 0 \/ value.den < 0 THEN "-" ELSE "")
                \o Decimal(Abs(value.num), 1)
           ELSE FormatDouble(value)

(***************************************************************************)
(* C16: PRINT writes the canonical form of the top of the stack and a      *)
(* newline, and pops that one value: nil as nil, a bool as true or false,  *)
(* a string as its characters with no quotes, a number with no fraction    *)
(* as its digits with no .0 after them.                                    *)
(***************************************************************************)
PrintCanonical ==
    [][Fetched(Op_code.print) =>
           /\ printed' = printed \o CanonicalForm(Top(stack_)) \o "\n"
           /\ cout' = cout \o trace_text \o CanonicalForm(Top(stack_)) \o "\n"
           /\ stack_' = Pop(stack_)
           /\ status' = "running"]_vars

\* print 1 + 2 * 3; wrote the line 7
PrintCanonicalWitness ==
    /\ Executed(Op_code.print)
    /\ Top(last.stack) = Double(7, 1)
    /\ stack_ = Pop(last.stack)
    /\ printed = "7\n"

\* the slot that the instruction executed last has for operand
SlotOperand == chunk_.code[last.ip + 2]

(***************************************************************************)
(* C17: SET_LOCAL writes the top of the stack to the slot, counted from    *)
(* the bottom, and SET_GLOBAL to the binding, and both leave the value on  *)
(* the stack, the depth, every other slot and every other binding as they  *)
(* were; GET_LOCAL pushes a copy of the slot, counted from the bottom,     *)
(* and leaves all slots as they were.                                      *)
(***************************************************************************)
AssignmentsKeepValue ==
    /\ (Executed(Op_code.set_local) /\ SlotOperand < Len(last.stack)) =>
           /\ status = "running"
           /\ Len(stack_) = Len(last.stack)
           /\ Top(stack_) = Top(last.stack)
           /\ \A i \in 1 .. Len(stack_) :
                  stack_[i] = IF i = SlotOperand + 1 THEN Top(last.stack)
                              ELSE last.stack[i]
           /\ globals_ = last.globals
    /\ (Executed(Op_code.set_global) /\ NameOperand \in DOMAIN last.globals) =>
           /\ status = "running"
           /\ stack_ = last.stack
           /\ DOMAIN globals_ = DOMAIN last.globals
           /\ \A k \in DOMAIN globals_ :
                  globals_[k] = IF k = NameOperand THEN Top(last.stack)
                                ELSE last.globals[k]
    /\ (Executed(Op_code.get_local) /\ SlotOperand < Len(last.stack)) =>
           /\ status = "running"
           /\ Len(stack_) = Len(last.stack) + 1
           /\ Top(stack_) = last.stack[SlotOperand + 1]
           /\ Pop(stack_) = last.stack
           /\ globals_ = last.globals

\* GET_LOCAL 0 under a second local that holds something else: the slot
\* at the bottom is what is pushed
AssignmentsKeepValueWitness ==
    /\ Executed(Op_code.get_local)
    /\ SlotOperand = 0
    /\ Len(last.stack) >= 2
    /\ last.stack[1] # Top(last.stack)
    /\ stack_ = Append(last.stack, last.stack[1])

(***************************************************************************)
(* C18: at the start of every interpret on a VM, the earlier ones having   *)
(* returned or ended in a runtime error, the operand stack is empty, so    *)
(* that slot k of the new chunk is the k-th value the chunk pushes.        *)
(***************************************************************************)
StackEmptyAtInterpret ==
    (status = "running" /\ history = <<>>) => stack_ = <<>>

(***************************************************************************)
(* C19: when ADD, SUBTRACT, MULTIPLY, DIVIDE, GREATER, LESS, NEGATE,       *)
(* GET_GLOBAL or SET_GLOBAL raises an error, the operand stack and the     *)
(* globals are as they were when the instruction began: nothing was        *)
(* popped and no binding changed.                                          *)
(***************************************************************************)
ErrorLeavesStateIntact ==
    \A op \in {Op_code.add, Op_code.subtract, Op_code.multiply, Op_code.divide,
                Op_code.greater, Op_code.less, Op_code.negate,
                Op_code.get_global, Op_code.set_global} :
        (Executed(op) /\ status = "thrown") =>
            /\ stack_ = last.stack
            /\ globals_ = last.globals

====
